---- MODULE Spec2Model ----
(***************************************************************************)
(* Serenity.IO.TemporaryFileHelper: purge of a temporary directory,        *)
(* deletion primitives and the mark-and-sweep recovery of locked files,    *)
(* over one directory of an abstract file system; its RandomFileCode; and  *)
(* the debounce of the QuickSearchInput widget.                            *)
(***************************************************************************)
EXTENDS Integers, Sequences, FiniteSets, TLC

VARIABLES
    dirExists,  \* the directory exists
    fs,         \* file name -> NoFile, or the file's metadata and content
    pc,         \* position of the running PurgeDirectory / TryDeleteMarkedFiles call
    args,       \* arguments of the running call
    checkFileName, \* PurgeDirectory's local: the normalized sentinel name
    files,      \* the array (or marker list) the running loop iterates
    idx,        \* loop index into files (1-based)
    readLine,   \* TryDeleteMarkedFiles' local: text read from the current marker
    before,     \* history: fs when the running call started
    attempted,  \* history: names handed to DeleteFile by the running call
    scans,      \* history: directory enumerations made by the running call
    err,        \* exception that left the running call ("none" when it returned)
    hist,       \* history of the mark-and-sweep protocol, per protected file
    parked,     \* the locals of a second call, made by another thread, while the
                \* first one runs
    guidBytes,  \* RandomFileCode's local: the 16 bytes of Guid.NewGuid()
    code,       \* the code RandomFileCode returned ("" before the first call)
    element,    \* QuickSearchInput: the input element, its value and ignore-change class
    lastValue,  \* QuickSearchInput.lastValue
    field,      \* QuickSearchInput.field
    fieldChanged, \* QuickSearchInput.fieldChanged
    timer,      \* QuickSearchInput.timer (0 when undefined or null)
    timeouts,   \* the window's pending search timeouts, with the value each will search
    lastTimer,  \* the last timer id window.setTimeout returned
    options,    \* QuickSearchInput.options (the fields of the field menu)
    trace       \* history: the last event the widget handled and what it did

codeVars == <<guidBytes, code>>

widgetVars == <<element, lastValue, field, fieldChanged, timer, timeouts, lastTimer,
                options, trace>>

fileVars == <<dirExists, fs, pc, args, checkFileName, files, idx, readLine,
              before, attempted, scans, err, hist, parked>>

vars == <<dirExists, fs, pc, args, checkFileName, files, idx, readLine,
          before, attempted, scans, err, hist, parked,
          guidBytes, code,
          element, lastValue, field, fieldChanged, timer, timeouts, lastTimer,
          options, trace>>

\* RandomFileCode has not been called
NoGuid == [i \in 0..15 |-> 0]
NoCode == guidBytes = NoGuid /\ code = ""

\* no widget has been constructed
Undefined == ""
NoEvent ==
    [event |-> "none", prev |-> "none", checked |-> FALSE, ignored |-> FALSE, value |-> "",
     lastValue |-> "", fieldChanged |-> FALSE, scheduled |-> FALSE, cancelled |-> FALSE,
     searched |-> FALSE, search |-> "", searchField |-> Undefined]
NoWidget ==
    /\ element = [val |-> "", ignoreChange |-> FALSE]
    /\ lastValue = ""
    /\ field = Undefined
    /\ fieldChanged = FALSE
    /\ timer = 0
    /\ timeouts = {}
    /\ lastTimer = 0
    /\ options = [fields |-> <<>>]
    /\ trace = NoEvent

----------------------------------------------------------------------------
(* Bounds of the model *)

\* timestamps (creation time, last-write time) range over 0..MaxTime
MaxTime == 2
\* window.setTimeout hands out the timer ids 1..MaxTimers
MaxTimers == 3
\* maxFilesInDirectory ranges over -1..MaxFiles
MaxFiles == 2

----------------------------------------------------------------------------
(* Strings *)

UpperChars == "ABCDEFGHIJKLMNOPQRSTUVWXYZ"
LowerChars == "abcdefghijklmnopqrstuvwxyz"

Char(s, i) == SubSeq(s, i, i)

UpperSet == {Char(UpperChars, i) : i \in 1..Len(UpperChars)}

LowerMap == [c \in UpperSet |->
                Char(LowerChars, CHOOSE i \in 1..Len(UpperChars) : Char(UpperChars, i) = c)]

\* char.ToLowerInvariant for the ASCII letters
LowerChar(c) == IF c \in UpperSet THEN LowerMap[c] ELSE c

RECURSIVE ToLower(_)
ToLower(s) ==
    IF s = "" THEN "" ELSE LowerChar(Char(s, 1)) \o ToLower(SubSeq(s, 2, Len(s)))

\* string.Equals(a, b, StringComparison.OrdinalIgnoreCase)
EqualsIgnoreCase(a, b) == ToLower(a) = ToLower(b)

IsWhite(c) == c = " "

\* string.Trim()
RECURSIVE TrimStart(_)
TrimStart(s) ==
    IF s # "" /\ IsWhite(Char(s, 1)) THEN TrimStart(SubSeq(s, 2, Len(s))) ELSE s

RECURSIVE TrimEnd(_)
TrimEnd(s) ==
    IF s # "" /\ IsWhite(Char(s, Len(s))) THEN TrimEnd(SubSeq(s, 1, Len(s) - 1)) ELSE s

Trim(s) == TrimEnd(TrimStart(s))

IsSeparator(c) == c = "/" \/ c = "\\"

\* fileSystem.GetFileName(path): the part after the last directory separator
RECURSIVE GetFileName(_)
GetFileName(path) ==
    IF \E i \in 1..Len(path) : IsSeparator(Char(path, i))
    THEN GetFileName(SubSeq(path, 1 + (CHOOSE i \in 1..Len(path) : IsSeparator(Char(path, i))), Len(path)))
    ELSE path

EndsWith(s, suffix) ==
    /\ Len(s) >= Len(suffix)
    /\ SubSeq(s, Len(s) - Len(suffix) + 1, Len(s)) = suffix

Digits == "0123456789"

DigitSet == {Char(Digits, i) : i \in 1..Len(Digits)}

DigitValue == [c \in DigitSet |-> (CHOOSE i \in 1..Len(Digits) : Char(Digits, i) = c) - 1]

\* long.ToInvariant(): the decimal form of a number
RECURSIVE ToInvariant(_)
ToInvariant(n) ==
    IF n < 0 THEN "-" \o ToInvariant(0 - n)
    ELSE IF n < 10 THEN Char(Digits, n + 1)
    ELSE ToInvariant(n \div 10) \o Char(Digits, (n % 10) + 1)

RECURSIVE DigitsValue(_, _)
DigitsValue(s, acc) ==
    IF s = "" THEN acc
    ELSE DigitsValue(SubSeq(s, 2, Len(s)), 10 * acc + DigitValue[Char(s, 1)])

AllDigits(s) == s # "" /\ \A i \in 1..Len(s) : Char(s, i) \in DigitSet

\* long.TryParse(s, out value): white space around, an optional sign, digits
TryParse(s) ==
    LET t == Trim(s)
        signed == t # "" /\ Char(t, 1) \in {"-", "+"}
        body == IF signed THEN SubSeq(t, 2, Len(t)) ELSE t
    IN IF AllDigits(body)
       THEN [ok |-> TRUE,
             value |-> IF signed /\ Char(t, 1) = "-" THEN 0 - DigitsValue(body, 0)
                       ELSE DigitsValue(body, 0)]
       ELSE [ok |-> FALSE, value |-> 0]

----------------------------------------------------------------------------
(* The file system capability (one directory) *)

DefaultTemporaryCheckFile == ".temporary"

\* The names a file of the directory can have, in the order an enumeration
\* of the directory returns them.
EnumOrder == <<".TEMPORARY", ".temporary", "a", "a.delete", "b", "b.delete">>

Names == {EnumOrder[i] : i \in 1..Len(EnumOrder)}

Times == 0..MaxTime

\* DateTime.Now of a PurgeDirectory call: later than every creation time
Now == MaxTime + 1

NoFile == [exists |-> FALSE]

\* CreationTime, LastWriteTimeUtc (as a file time), content, and whether
\* another process holds the file open so that deleting it fails
File(c, m, t, l) ==
    [exists |-> TRUE, CreationTime |-> c, LastWriteTime |-> m, text |-> t, locked |-> l]

FileExists(f, d, path) == d /\ path \in Names /\ f[path].exists

\* fileSystem.DeleteFile: throws when the file is in use, does nothing
\* when it is missing
DeleteFileThrowsMutant(f, path) == FALSE
DeleteFileThrows(f, path) == path \in Names /\ f[path].exists /\ f[path].locked

DeleteFile(f, path) ==
    IF path \in Names /\ f[path].exists /\ ~f[path].locked
    THEN [f EXCEPT ![path] = NoFile]
    ELSE f

RECURSIVE InfosFrom(_, _)
InfosFrom(f, i) ==
    IF i > Len(EnumOrder) THEN <<>>
    ELSE (IF f[EnumOrder[i]].exists
          THEN <<[Name |-> EnumOrder[i], CreationTime |-> f[EnumOrder[i]].CreationTime]>>
          ELSE <<>>) \o InfosFrom(f, i + 1)

\* fileSystem.GetTemporaryFileInfos(directory): name and creation time of
\* every file, in enumeration order
GetTemporaryFileInfos(f) == InfosFrom(f, 1)

ExistingNames(f) == {n \in Names : f[n].exists}

----------------------------------------------------------------------------
(* PurgeDirectory *)

NoArgs == [op |-> "none"]

\* the locals of a thread that has made no call yet
NoCall ==
    [pc |-> "idle", args |-> NoArgs, checkFileName |-> "", files |-> <<>>, idx |-> 1,
     readLine |-> "", before |-> [n \in Names |-> NoFile], attempted |-> {}, scans |-> 0,
     err |-> "none"]

PurgeArgs(autoExpireTime, maxFilesInDirectory, checkFileNameArg) ==
    [op |-> "PurgeDirectory", autoExpireTime |-> autoExpireTime,
     maxFilesInDirectory |-> maxFilesInDirectory, checkFileName |-> checkFileNameArg]

\* checkFileName = fileSystem.GetFileName(checkFileName).Trim(), when not empty
NormalizeCheckFileName(name) == IF name = "" THEN "" ELSE Trim(GetFileName(name))

\* autoExpireTime.Ticks != 0 && maxFilesInDirectory != 0
AgePassMutant(a) == a.autoExpireTime # 0
AgePass(a) == a.autoExpireTime # 0 /\ a.maxFilesInDirectory # 0

\* maxFilesInDirectory >= 0
CountPass(a) == a.maxFilesInDirectory >= 0

\* autoExpireLimit = DateTime.Now.Subtract(autoExpireTime)
AutoExpireLimit(a) == Now - a.autoExpireTime

\* .Where(fi => fi.CreationTime < autoExpireLimit)
ExpiredMutantInclusive(fi, a) == fi.CreationTime <= AutoExpireLimit(a)
ExpiredMutantShort(fi, a) == fi.CreationTime + 1 < AutoExpireLimit(a)
Expired(fi, a) == fi.CreationTime < AutoExpireLimit(a)

\* !checkFileName.Equals(fi.Name, StringComparison.OrdinalIgnoreCase)
IsCheckFileMutant(chk, name) == chk = name
IsCheckFile(chk, name) == EqualsIgnoreCase(chk, name)

\* Array.Sort(files, (x, y) => x.CreationTime < y.CreationTime ? -1 : 1):
\* Array.Sort is not a stable sort and the comparison never answers 0, so
\* entries of equal creation time come out in any relative order. The set
\* of the arrays the sort can leave.
ArraySortMutant(list) == {list}
RECURSIVE SortsOf(_)
SortsOf(S) ==
    IF S = {} THEN {<<>>}
    ELSE UNION { { <<x>> \o t : t \in SortsOf(S \ {x}) } :
                 x \in {y \in S : \A z \in S : ~(z.CreationTime < y.CreationTime)} }

ArraySort(list) == SortsOf({list[i] : i \in 1..Len(list)})

\* files.Length - maxFilesInDirectory: the entries the count pass visits
CountLoopEndMutant(list, a) == Len(list) - a.maxFilesInDirectory - 1
CountLoopEndOverMutant(list, a) ==
    IF a.maxFilesInDirectory > 0 THEN Len(list) - a.maxFilesInDirectory + 1 ELSE Len(list)
CountLoopEnd(list, a) == Len(list) - a.maxFilesInDirectory

AfterAgePass(a) == IF CountPass(a) THEN "count_scan" ELSE "done"

\* Lines 60-72: the sentinel check and the guards of the two passes.
SentinelCheckFailsMutant(f, d, a) == FALSE
SentinelCheckNormalizedMutant(f, d, a) ==
    /\ NormalizeCheckFileName(a.checkFileName) # ""
    /\ ~FileExists(f, d, NormalizeCheckFileName(a.checkFileName))
SentinelCheckFails(f, d, a) ==
    /\ a.checkFileName # ""
    /\ ~FileExists(f, d, NormalizeCheckFileName(a.checkFileName))

PurgeDirectory(autoExpireTime, maxFilesInDirectory, checkFileNameArg) ==
    LET a == PurgeArgs(autoExpireTime, maxFilesInDirectory, checkFileNameArg) IN
    /\ pc = "idle"
    /\ args' = a
    /\ checkFileName' = NormalizeCheckFileName(checkFileNameArg)
    /\ before' = fs
    /\ attempted' = {}
    /\ scans' = 0
    /\ err' = "none"
    /\ files' = <<>>
    /\ idx' = 1
    /\ pc' = IF SentinelCheckFails(fs, dirExists, a) THEN "done"
             ELSE IF AgePass(a) THEN "age_scan"
             ELSE AfterAgePass(a)
    /\ UNCHANGED <<codeVars, widgetVars, parked, dirExists, fs, readLine, hist>>

\* Line 78: the age pass enumerates the directory and keeps the expired entries.
PurgeAgeScan ==
    /\ pc = "age_scan"
    /\ IF ~dirExists
       THEN /\ err' = "DirectoryNotFoundException"
            /\ pc' = "done"
            /\ UNCHANGED <<files, idx, scans>>
       ELSE /\ files' = SelectSeq(GetTemporaryFileInfos(fs), LAMBDA fi : Expired(fi, args))
            /\ idx' = 1
            /\ scans' = scans + 1
            /\ pc' = IF files' = <<>> THEN AfterAgePass(args) ELSE "age_loop"
            /\ err' = err
    /\ UNCHANGED <<codeVars, widgetVars, parked, dirExists, fs, args, checkFileName, readLine, before, attempted, hist>>

\* Lines 81-90: one iteration of the age pass.
PurgeAgeDeleteMutant ==
    /\ pc = "age_loop"
    /\ idx <= Len(files)
    /\ IF ~IsCheckFile(checkFileName, files[idx].Name)
       THEN /\ fs' = DeleteFile(fs, files[idx].Name)
            /\ attempted' = attempted \cup {files[idx].Name}
            /\ err' = IF DeleteFileThrows(fs, files[idx].Name) THEN "IOException" ELSE err
       ELSE UNCHANGED <<fs, attempted, err>>
    /\ idx' = idx + 1
    /\ pc' = IF err' # "none" THEN "done"
             ELSE IF idx' > Len(files) THEN AfterAgePass(args) ELSE "age_loop"
    /\ UNCHANGED <<codeVars, widgetVars, parked, dirExists, args, checkFileName, files, readLine, before, scans, hist>>
PurgeAgeDelete ==
    /\ pc = "age_loop"
    /\ idx <= Len(files)
    /\ IF ~IsCheckFile(checkFileName, files[idx].Name)
       THEN /\ fs' = DeleteFile(fs, files[idx].Name)
            /\ attempted' = attempted \cup {files[idx].Name}
       ELSE UNCHANGED <<fs, attempted>>
    /\ idx' = idx + 1
    /\ pc' = IF idx' > Len(files) THEN AfterAgePass(args) ELSE "age_loop"
    /\ UNCHANGED <<codeVars, widgetVars, parked, dirExists, args, checkFileName, files, readLine, before, scans, err, hist>>

\* Lines 98-109: the count pass enumerates the directory afresh and sorts.
PurgeCountScanMutant ==
    /\ pc = "count_scan"
    /\ scans' = scans + 1
    /\ idx' = 1
    /\ err' = err
    /\ files' \in ArraySort(GetTemporaryFileInfos(before))
    /\ pc' = IF Len(files') > args.maxFilesInDirectory THEN "count_loop" ELSE "done"
    /\ UNCHANGED <<codeVars, widgetVars, parked, dirExists, fs, args, checkFileName, readLine, before, attempted, hist>>
PurgeCountScan ==
    /\ pc = "count_scan"
    /\ IF ~dirExists
       THEN /\ err' = "DirectoryNotFoundException"
            /\ pc' = "done"
            /\ UNCHANGED <<files, idx, scans>>
       ELSE LET list == GetTemporaryFileInfos(fs) IN
            /\ scans' = scans + 1
            /\ idx' = 1
            /\ err' = err
            /\ IF Len(list) > args.maxFilesInDirectory
               THEN /\ pc' = "count_loop"
                    /\ IF args.maxFilesInDirectory # 0
                       THEN files' \in ArraySort(list)
                       ELSE files' = list
               ELSE /\ pc' = "done"
                    /\ files' = list
    /\ UNCHANGED <<codeVars, widgetVars, parked, dirExists, fs, args, checkFileName, readLine, before, attempted, hist>>

\* Lines 112-122: one iteration of the count pass.
PurgeCountDelete ==
    /\ pc = "count_loop"
    /\ idx <= CountLoopEnd(files, args)
    /\ IF ~IsCheckFile(checkFileName, files[idx].Name)
       THEN /\ fs' = DeleteFile(fs, files[idx].Name)
            /\ attempted' = attempted \cup {files[idx].Name}
       ELSE UNCHANGED <<fs, attempted>>
    /\ idx' = idx + 1
    /\ pc' = IF idx' > CountLoopEnd(files, args) THEN "done" ELSE "count_loop"
    /\ UNCHANGED <<codeVars, widgetVars, parked, dirExists, args, checkFileName, files, readLine, before, scans, err, hist>>

----------------------------------------------------------------------------
(* Specification of a PurgeDirectory call on any directory content *)

CheckFileNames == {"", "tmp/.temporary ", " ", "tmp/"}

SentinelNames == {".TEMPORARY", ".temporary"}
PlainNames == {"a", "b"}

\* per protected file: a marker was written for it by TryDeleteOrMark, the
\* file was rewritten after that, and the sweeps started since (up to 2)
NoMark == [marked |-> FALSE, rewritten |-> FALSE, sweeps |-> 0]
NoHist == [n \in PlainNames |-> NoMark]

PurgeDirectoryContents ==
    { f \in [Names -> {NoFile} \cup {File(c, c, "", l) : c \in Times, l \in BOOLEAN}] :
        /\ \A n \in Names \ (SentinelNames \cup PlainNames) : ~f[n].exists
        /\ \A n \in SentinelNames : f[n].exists => ~f[n].locked }

InitPurge ==
    /\ dirExists \in BOOLEAN
    /\ fs \in PurgeDirectoryContents
    /\ (~dirExists => \A n \in Names : ~fs[n].exists)
    /\ pc = "idle"
    /\ args = NoArgs
    /\ checkFileName = ""
    /\ files = <<>>
    /\ idx = 1
    /\ readLine = ""
    /\ before = fs
    /\ attempted = {}
    /\ scans = 0
    /\ err = "none"
    /\ hist = NoHist
    /\ parked = NoCall
    /\ NoCode
    /\ NoWidget

PurgeCall ==
    \E autoExpireTime \in Times, maxFilesInDirectory \in -1..MaxFiles, name \in CheckFileNames :
        PurgeDirectory(autoExpireTime, maxFilesInDirectory, name)

NextPurge ==
    \/ PurgeCall
    \/ PurgeAgeScan
    \/ PurgeAgeDelete
    \/ PurgeCountScan
    \/ PurgeCountDelete

SpecPurge == InitPurge /\ [][NextPurge]_vars

----------------------------------------------------------------------------
(* Deletion primitives *)

\* Delete(filePath): the outcome, and whether the primary DeleteFile threw
DeleteMutant(f, d, filePath) ==
    [fs |-> IF FileExists(f, d, filePath) THEN DeleteFile(f, filePath) ELSE f,
     thrown |-> FileExists(f, d, filePath) /\ DeleteFileThrows(f, filePath)]
Delete(f, d, filePath) ==
    IF FileExists(f, d, filePath) /\ DeleteFileThrows(f, filePath)
    THEN [fs |-> f, thrown |-> TRUE]
    ELSE LET f1 == IF FileExists(f, d, filePath) THEN DeleteFile(f, filePath) ELSE f
             marker == filePath \o ".delete"
         IN [fs |-> IF FileExists(f1, d, marker) THEN DeleteFile(f1, marker) ELSE f1,
             thrown |-> FALSE]

\* try { ... } catch { }: an exception of the block stops at the catch
CatchMutant(outcome) == outcome
Catch(outcome) == [outcome EXCEPT !.thrown = FALSE]

\* TryDelete(filePath): the outcome, and whether an exception leaves it
TryDeleteOutcome(f, d, filePath) ==
    IF FileExists(f, d, filePath)
    THEN Catch(Delete(f, d, filePath))
    ELSE [fs |-> f, thrown |-> FALSE]

\* TryDelete(filePath): the file system it leaves
TryDelete(f, d, filePath) == TryDeleteOutcome(f, d, filePath).fs

----------------------------------------------------------------------------
(* Mark and sweep *)

\* fileSystem.GetLastWriteTimeUtc(path).ToFileTimeUtc(); a missing file
\* reads as the epoch
FileTimeMutant(f, path) ==
    IF path \in Names /\ f[path].exists THEN f[path].CreationTime ELSE 0
FileTime(f, path) ==
    IF path \in Names /\ f[path].exists THEN f[path].LastWriteTime ELSE 0

\* fileSystem.WriteAllText: throws when the file is held open by another
\* process; creates the file or replaces its content
WriteAllTextThrows(f, d, path) ==
    ~d \/ path \notin Names \/ (f[path].exists /\ f[path].locked)

WriteAllText(f, path, contents) ==
    IF f[path].exists
    THEN [f EXCEPT ![path].text = contents, ![path].LastWriteTime = MaxTime]
    ELSE [f EXCEPT ![path] = File(MaxTime, MaxTime, contents, FALSE)]

\* failures of the file system that no state of the directory explains:
\* the last-write-time query throws, the write of the marker throws
NoFault == [time |-> FALSE, write |-> FALSE]
Faults == [time : BOOLEAN, write : BOOLEAN]

\* Lines 200-202: the marker is written with the file's last write time
WriteMarker(f, d, filePath, fault) ==
    LET deleteFile == filePath \o ".delete"
        fileTime == FileTime(f, filePath)
    IN IF fault.time \/ fault.write \/ WriteAllTextThrows(f, d, deleteFile)
       THEN [fs |-> f, thrown |-> TRUE]
       ELSE [fs |-> WriteAllText(f, deleteFile, ToInvariant(fileTime)), thrown |-> FALSE]

\* TryDeleteOrMark(filePath): the outcome, and whether an exception leaves it
TryDeleteOrMarkOutcomeMutant(f, d, filePath, fault) ==
    Catch(WriteMarker(TryDeleteOutcome(f, d, filePath).fs, d, filePath, fault))
TryDeleteOrMarkOutcome(f, d, filePath, fault) ==
    LET t == TryDeleteOutcome(f, d, filePath) IN
    IF t.thrown THEN t
    ELSE IF FileExists(t.fs, d, filePath)
    THEN Catch(WriteMarker(t.fs, d, filePath, fault))
    ELSE t

\* TryDeleteOrMark(filePath): the file system it leaves
TryDeleteOrMarkResult(f, d, filePath) == TryDeleteOrMarkOutcome(f, d, filePath, NoFault).fs

\* Delete(filePath, type): lines 176-184
DeleteTypes == {"Delete", "TryDelete", "TryDeleteOrMark"}

DeleteWithTypeMutant(f, d, filePath, type, fault) ==
    IF type = "Delete" THEN Delete(f, d, filePath)
    ELSE TryDeleteOrMarkOutcome(f, d, filePath, fault)
DeleteWithType(f, d, filePath, type, fault) ==
    IF type = "Delete" THEN Delete(f, d, filePath)
    ELSE IF type = "TryDelete" THEN TryDeleteOutcome(f, d, filePath)
    ELSE TryDeleteOrMarkOutcome(f, d, filePath, fault)

Idle == pc \in {"idle", "done"}

\* a call that runs in one step: what it leaves of the caller's bookkeeping
Returned(a, outcome) ==
    /\ Idle
    /\ fs' = outcome.fs
    /\ err' = IF outcome.thrown THEN "IOException" ELSE "none"
    /\ args' = a
    /\ before' = fs
    /\ pc' = "idle"
    /\ files' = <<>>
    /\ idx' = 1
    /\ readLine' = ""
    /\ attempted' = {}
    /\ scans' = 0
    /\ UNCHANGED <<codeVars, widgetVars, parked, dirExists, checkFileName>>

\* a protected file that is gone has no mark left to honour
Forget == hist' = [n \in PlainNames |-> IF fs'[n].exists THEN hist[n] ELSE NoMark]

\* Delete(filePath) called by the application
DeleteCall(filePath) ==
    /\ Returned([op |-> "Delete", filePath |-> filePath], Delete(fs, dirExists, filePath))
    /\ Forget

\* TryDelete(filePath) called by the application
TryDeleteCall(filePath) ==
    /\ Returned([op |-> "TryDelete", filePath |-> filePath],
                TryDeleteOutcome(fs, dirExists, filePath))
    /\ Forget

\* TryDeleteOrMark(filePath), under a pattern of file system failures
TryDeleteOrMarkUnder(filePath, fault) ==
    /\ Returned([op |-> "TryDeleteOrMark", filePath |-> filePath, fault |-> fault],
                TryDeleteOrMarkOutcome(fs, dirExists, filePath, fault))
    /\ hist' = [hist EXCEPT ![filePath] =
                  IF ~fs'[filePath].exists THEN NoMark
                  ELSE IF WriteMarker(fs, dirExists, filePath, fault).thrown THEN @
                  ELSE [marked |-> TRUE, rewritten |-> FALSE, sweeps |-> 0]]

TryDeleteOrMark(filePath) == TryDeleteOrMarkUnder(filePath, NoFault)

\* Delete(filePath, type) called by the application
DeleteWithTypeCall(filePath, type, fault) ==
    /\ Returned([op |-> "DeleteWithType", filePath |-> filePath, type |-> type, fault |-> fault],
                DeleteWithType(fs, dirExists, filePath, type, fault))
    /\ hist' = [n \in PlainNames |->
                  IF ~fs'[n].exists THEN NoMark
                  ELSE IF n = filePath /\ type \notin {"Delete", "TryDelete"}
                          /\ ~WriteMarker(fs, dirExists, filePath, fault).thrown
                  THEN [marked |-> TRUE, rewritten |-> FALSE, sweeps |-> 0]
                  ELSE hist[n]]

\* fileSystem.GetFiles(path, "*.delete")
RECURSIVE FilesFrom(_, _, _)
FilesFrom(f, suffix, i) ==
    IF i > Len(EnumOrder) THEN <<>>
    ELSE (IF f[EnumOrder[i]].exists /\ EndsWith(EnumOrder[i], suffix)
          THEN <<EnumOrder[i]>> ELSE <<>>) \o FilesFrom(f, suffix, i + 1)

GetFiles(f, suffix) == FilesFrom(f, suffix, 1)

\* name[0..^7]
ActualFileMutant(name) == "b"
ActualFile(name) == SubSeq(name, 1, Len(name) - 7)

\* long.TryParse(readLine, out fileTime) && fileTime == the file's last write time
TokenMatchesMutant(f, text, actualFile) == TRUE
TokenMatches(f, text, actualFile) ==
    /\ TryParse(text).ok
    /\ TryParse(text).value = FileTime(f, actualFile)

\* the names GetFiles(path, "*.delete") can return
MarkerNames == {n \in Names : EndsWith(n, ".delete")}

\* failures of the file system during a sweep that no state of the
\* directory explains: the markers ReadAllText throws on, the files the
\* last-write-time query throws on
NoSweepFault == [read |-> {}, time |-> {}]
SweepFaults == [read : SUBSET MarkerNames, time : SUBSET PlainNames]

\* Lines 215-222: the directory check and the enumeration of the markers.
\* The record of the call keeps whether it follows a finished sweep directly.
TryDeleteMarkedFilesUnder(fault) ==
    /\ Idle
    /\ args' = [op |-> "TryDeleteMarkedFiles", fault |-> fault,
                again |-> (pc = "done" /\ args.op = "TryDeleteMarkedFiles")]
    /\ before' = fs
    /\ attempted' = {}
    /\ scans' = 0
    /\ err' = "none"
    /\ readLine' = ""
    /\ idx' = 1
    /\ files' = IF dirExists
                THEN LET list == GetFiles(fs, ".delete")
                     IN [i \in 1..Len(list) |-> [Name |-> list[i]]]
                ELSE <<>>
    /\ pc' = IF dirExists THEN "sweep_read" ELSE "done"
    /\ hist' = [n \in PlainNames |->
                  IF hist[n].marked /\ hist[n].sweeps < 2
                  THEN [hist[n] EXCEPT !.sweeps = @ + 1] ELSE hist[n]]
    /\ UNCHANGED <<codeVars, widgetVars, parked, dirExists, fs, checkFileName>>

TryDeleteMarkedFiles == TryDeleteMarkedFilesUnder(NoSweepFault)

\* the foreach moves to the next marker
NextMarkerSkipMutant ==
    /\ idx' = idx + 2
    /\ readLine' = ""
    /\ pc' = "sweep_read"
NextMarkerMutant ==
    /\ idx' = idx
    /\ readLine' = ""
    /\ pc' = "sweep_read"
NextMarker ==
    /\ idx' = idx + 1
    /\ readLine' = ""
    /\ pc' = "sweep_read"

\* fileSystem.ReadAllText(name) throws: the marker is gone, or cannot be read
ReadAllTextThrows(name) == ~FileExists(fs, dirExists, name) \/ name \in args.fault.read

\* fileSystem.GetLastWriteTimeUtc(actualFile) throws
GetLastWriteTimeThrows(actualFile) == actualFile \in args.fault.time

\* catch { } of lines 240-242: the exception ends the processing of the
\* marker, and the foreach goes on
SwallowedMutant ==
    /\ err' = "IOException"
    /\ pc' = "done"
    /\ UNCHANGED <<idx, readLine>>
Swallowed ==
    /\ err' = err
    /\ NextMarker

\* Lines 222, 226: the foreach ends after the last marker; otherwise
\* ReadAllText(name).
SweepRead ==
    /\ pc = "sweep_read"
    /\ IF idx > Len(files)
       THEN /\ pc' = "done"
            /\ UNCHANGED <<idx, readLine, err>>
       ELSE IF ReadAllTextThrows(files[idx].Name)
       THEN Swallowed
       ELSE /\ readLine' = fs[files[idx].Name].text
            /\ pc' = "sweep_exists"
            /\ UNCHANGED <<idx, err>>
    /\ UNCHANGED <<codeVars, widgetVars, parked, dirExists, fs, args, checkFileName, files, before, attempted, scans, hist>>

\* Line 228: FileExists(actualFile)
SweepExists ==
    /\ pc = "sweep_exists"
    /\ pc' = IF FileExists(fs, dirExists, ActualFile(files[idx].Name))
             THEN "sweep_compare" ELSE "sweep_marker"
    /\ UNCHANGED <<codeVars, widgetVars, parked, dirExists, fs, args, checkFileName, files, idx, readLine,
                   before, attempted, scans, err, hist>>

\* Lines 230-232: the token of the marker against the file's last write
\* time, which is queried only when the token parses
SweepCompare ==
    /\ pc = "sweep_compare"
    /\ IF TryParse(readLine).ok /\ GetLastWriteTimeThrows(ActualFile(files[idx].Name))
       THEN Swallowed
       ELSE /\ pc' = IF TokenMatches(fs, readLine, ActualFile(files[idx].Name))
                     THEN "sweep_delete" ELSE "sweep_marker"
            /\ UNCHANGED <<idx, readLine, err>>
    /\ UNCHANGED <<codeVars, widgetVars, parked, dirExists, fs, args, checkFileName, files,
                   before, attempted, scans, hist>>

\* Line 233: TryDelete(actualFile)
SweepDeleteActual ==
    /\ pc = "sweep_delete"
    /\ fs' = TryDelete(fs, dirExists, ActualFile(files[idx].Name))
    /\ pc' = "sweep_marker"
    /\ UNCHANGED <<codeVars, widgetVars, parked, dirExists, args, checkFileName, files, idx, readLine,
                   before, attempted, scans, err, hist>>

\* Lines 235, 238: TryDelete(name)
SweepDeleteMarkerMutant ==
    /\ pc = "sweep_marker"
    /\ fs' = fs
    /\ NextMarker
    /\ UNCHANGED <<codeVars, widgetVars, parked, dirExists, args, checkFileName, files, before, attempted, scans, err, hist>>
SweepDeleteMarker ==
    /\ pc = "sweep_marker"
    /\ fs' = TryDelete(fs, dirExists, files[idx].Name)
    /\ NextMarker
    /\ UNCHANGED <<codeVars, widgetVars, parked, dirExists, args, checkFileName, files, before, attempted, scans, err, hist>>

----------------------------------------------------------------------------
(* Other processes using the directory *)

\* what an action of another process leaves of the caller's bookkeeping:
\* between two calls the last call's record is dropped
OtherProcess ==
    IF Idle
    THEN /\ pc' = "idle"
         /\ args' = NoArgs
         /\ before' = fs'
         /\ files' = <<>>
         /\ idx' = 1
         /\ readLine' = ""
         /\ attempted' = {}
         /\ scans' = 0
         /\ err' = "none"
    ELSE UNCHANGED <<pc, args, before, files, idx, readLine, attempted, scans, err>>

\* a writer rewrites the file: it gets a new last write time
Rewrite(n) ==
    /\ fs[n].exists
    /\ fs[n].LastWriteTime < MaxTime
    /\ fs' = [fs EXCEPT ![n].LastWriteTime = @ + 1]
    /\ hist' = [hist EXCEPT ![n].rewritten = hist[n].marked]
    /\ OtherProcess
    /\ UNCHANGED <<codeVars, widgetVars, parked, dirExists, checkFileName>>

\* another process opens the file, which makes deleting it fail
Lock(n) ==
    /\ fs[n].exists
    /\ ~fs[n].locked
    /\ fs' = [fs EXCEPT ![n].locked = TRUE]
    /\ OtherProcess
    /\ UNCHANGED <<codeVars, widgetVars, parked, dirExists, checkFileName, hist>>

\* the process closes the file
Unlock(n) ==
    /\ fs[n].exists
    /\ fs[n].locked
    /\ fs' = [fs EXCEPT ![n].locked = FALSE]
    /\ OtherProcess
    /\ UNCHANGED <<codeVars, widgetVars, parked, dirExists, checkFileName, hist>>

----------------------------------------------------------------------------
(* Specifications of the mark-and-sweep protocol *)

\* what a marker can hold: a token, or text that is no number
MarkerTexts == {ToInvariant(t) : t \in 1..MaxTime} \cup {"x", " 1"}

SweepDirectoryContents ==
    { f \in [Names -> {NoFile}
                      \cup {File(0, m, "", l) : m \in 1..MaxTime, l \in BOOLEAN}
                      \cup {File(MaxTime, MaxTime, t, l) : t \in MarkerTexts, l \in BOOLEAN}] :
        /\ \A n \in SentinelNames : ~f[n].exists
        /\ \A n \in PlainNames : f[n].exists => f[n].text = "" /\ f[n].CreationTime = 0
        /\ \A n \in MarkerNames : f[n].exists => f[n].text \in MarkerTexts }

InitSweep ==
    /\ dirExists \in BOOLEAN
    /\ fs \in SweepDirectoryContents
    /\ (~dirExists => \A n \in Names : ~fs[n].exists)
    /\ pc = "idle"
    /\ args = NoArgs
    /\ checkFileName = ""
    /\ files = <<>>
    /\ idx = 1
    /\ readLine = ""
    /\ before = fs
    /\ attempted = {}
    /\ scans = 0
    /\ err = "none"
    /\ hist = NoHist
    /\ parked = NoCall
    /\ NoCode
    /\ NoWidget

SweepSteps ==
    \/ SweepRead
    \/ SweepExists
    \/ SweepCompare
    \/ SweepDeleteActual
    \/ SweepDeleteMarker

\* the calls one after the other: other processes act between two calls
NextSweep ==
    \/ \E n \in PlainNames : TryDeleteOrMark(n)
    \/ TryDeleteMarkedFiles
    \/ SweepSteps
    \/ \E n \in PlainNames : Idle /\ Rewrite(n)
    \/ \E n \in PlainNames : Idle /\ Lock(n)
    \/ \E n \in PlainNames : Idle /\ Unlock(n)

SpecSweep == InitSweep /\ [][NextSweep]_vars

\* one sweep, under any pattern of file system failures
NextFault ==
    \/ \E fault \in SweepFaults : pc = "idle" /\ TryDeleteMarkedFilesUnder(fault)
    \/ SweepSteps

SpecFault == InitSweep /\ [][NextFault]_vars

\* other processes act at any moment of a sweep
NextRace ==
    \/ \E n \in PlainNames : TryDeleteOrMark(n)
    \/ TryDeleteMarkedFiles
    \/ SweepSteps
    \/ \E n \in PlainNames : Rewrite(n)
    \/ \E n \in PlainNames : Lock(n)
    \/ \E n \in PlainNames : Unlock(n)

SpecRace == InitSweep /\ [][NextRace]_vars

\* the scheduler suspends the running call and resumes the other thread,
\* which goes on with its call or has not made one yet
Switch ==
    /\ pc # "idle"
    /\ parked.pc # "done"
    /\ parked' = [pc |-> pc, args |-> args, checkFileName |-> checkFileName,
                  files |-> files, idx |-> idx, readLine |-> readLine, before |-> before,
                  attempted |-> attempted, scans |-> scans, err |-> err]
    /\ pc' = parked.pc
    /\ args' = parked.args
    /\ checkFileName' = parked.checkFileName
    /\ files' = parked.files
    /\ idx' = parked.idx
    /\ readLine' = parked.readLine
    /\ before' = parked.before
    /\ attempted' = parked.attempted
    /\ scans' = parked.scans
    /\ err' = parked.err
    /\ UNCHANGED <<codeVars, widgetVars, dirExists, fs, hist>>

\* a directory with its sentinel, a file that may be held open and its
\* marker, and maybe a second file with its marker
InterleaveDirectoryContents ==
    { f \in [Names -> {NoFile}
                      \cup {File(0, 1, "", l) : l \in BOOLEAN}
                      \cup {File(1, 1, t, FALSE) : t \in {ToInvariant(1), "x"}}] :
        /\ ~f[".TEMPORARY"].exists
        /\ f[".temporary"] = File(1, 1, "x", FALSE)
        /\ f["a"].exists /\ f["a"].text = ""
        /\ f["a.delete"].exists /\ f["a.delete"].text # ""
        /\ \/ f["b"] = NoFile /\ f["b.delete"] = NoFile
           \/ f["b"] = File(0, 1, "", FALSE) /\ f["b.delete"] = File(1, 1, ToInvariant(1), FALSE) }

InitInterleave ==
    /\ dirExists = TRUE
    /\ fs \in InterleaveDirectoryContents
    /\ pc = "idle"
    /\ args = NoArgs
    /\ checkFileName = ""
    /\ files = <<>>
    /\ idx = 1
    /\ readLine = ""
    /\ before = fs
    /\ attempted = {}
    /\ scans = 0
    /\ err = "none"
    /\ hist = NoHist
    /\ parked = NoCall
    /\ NoCode
    /\ NoWidget

PurgeSteps ==
    \/ PurgeAgeScan
    \/ PurgeAgeDelete
    \/ PurgeCountScan
    \/ PurgeCountDelete

\* each thread makes one call: one PurgeDirectory, the other TryDeleteMarkedFiles
InterleaveCalls ==
    \/ \E autoExpireTime \in Times, maxFilesInDirectory \in -1..MaxFiles :
          /\ parked.args.op # "PurgeDirectory"
          /\ PurgeDirectory(autoExpireTime, maxFilesInDirectory, DefaultTemporaryCheckFile)
    \/ /\ pc = "idle"
       /\ parked.args.op # "TryDeleteMarkedFiles"
       /\ TryDeleteMarkedFiles

\* the steps of the two calls
Progress ==
    \/ InterleaveCalls
    \/ PurgeSteps
    \/ SweepSteps

NextInterleave ==
    \/ Progress
    \/ Switch

SpecInterleave == InitInterleave /\ [][NextInterleave]_vars

\* both threads keep being scheduled
FairInterleave == SpecInterleave /\ WF_vars(Progress) /\ WF_vars(Switch)

\* sweeps keep being run and every sweep started runs to its end
FairSweep == SpecSweep /\ WF_vars(TryDeleteMarkedFiles) /\ WF_vars(SweepSteps)

\* the deletion operations called by the application, one call after the
\* other, on any directory content and under any pattern of failures
Paths == PlainNames \cup MarkerNames

NextDelete ==
    \/ \E filePath \in Paths : DeleteCall(filePath)
    \/ \E filePath \in Paths : TryDeleteCall(filePath)
    \/ \E filePath \in PlainNames, fault \in Faults : TryDeleteOrMarkUnder(filePath, fault)
    \/ \E filePath \in PlainNames, type \in DeleteTypes, fault \in Faults :
          DeleteWithTypeCall(filePath, type, fault)

SpecDelete == InitSweep /\ [][NextDelete]_vars

----------------------------------------------------------------------------
(* Properties of PurgeDirectory (checked under SpecPurge) *)

PurgeDone == pc = "done" /\ args.op = "PurgeDirectory"

\* the entries of the directory whose name is the sentinel's, letter case aside
LowerName == [n \in Names |-> ToLower(n)]

SentinelEntries(f, chk) ==
    IF chk = "" THEN {}
    ELSE LET lower == ToLower(chk) IN {n \in Names : f[n].exists /\ LowerName[n] = lower}

\* a sentinel name is configured and the sentinel file is there
SentinelPresent ==
    /\ args.checkFileName # ""
    /\ checkFileName \in Names
    /\ dirExists /\ before[checkFileName].exists

\* files the call removed
Deleted == {n \in Names : before[n].exists /\ ~fs[n].exists}

\* every DeleteFile the call made succeeded
NoDeletionFailed == \A n \in attempted : ~fs[n].exists

ExpiredBefore == {n \in Names : before[n].exists /\ before[n].CreationTime < Now - args.autoExpireTime}

\* C1: with a non-empty checkFileName whose file is not in the directory,
\* PurgeDirectory deletes nothing, scans nothing and raises nothing: the
\* directory is as it was, whatever the policy.
C1_AbsentSentinelNoPurge ==
    (/\ PurgeDone
     /\ args.checkFileName # ""
     /\ ~(dirExists /\ checkFileName \in Names /\ before[checkFileName].exists))
    => (fs = before /\ attempted = {} /\ scans = 0 /\ err = "none")

C1_Witness ==
    /\ PurgeDone
    /\ args.checkFileName # ""
    /\ ~before[".temporary"].exists
    /\ before["a"].exists /\ before["b"].exists /\ before[".TEMPORARY"].exists
    /\ before["a"].CreationTime = 0
    /\ args.maxFilesInDirectory = 0
    /\ fs = before

\* C2: in a call with a non-empty sentinel name no entry named like the
\* sentinel (letter case aside) is handed to DeleteFile, by either pass,
\* and every such entry present before the call is present after it.
C2_SentinelNeverDeleted ==
    (args.op = "PurgeDirectory" /\ args.checkFileName # "")
    => /\ \A n \in attempted : n \notin SentinelEntries(before, checkFileName)
       /\ \A n \in SentinelEntries(before, checkFileName) : fs[n] = before[n]

C2_Witness ==
    /\ PurgeDone
    /\ SentinelPresent
    /\ before[".TEMPORARY"].exists /\ before[".TEMPORARY"].CreationTime = 0
    /\ before[".temporary"].CreationTime = 0
    /\ scans = 2
    /\ Deleted = {"a", "b"}
    /\ fs[".TEMPORARY"].exists /\ fs[".temporary"].exists

\* the entries of before in ascending creation time, ties in enumeration order
RECURSIVE StableSorted(_, _)
StableSorted(list, f) ==
    IF list = <<>> THEN <<>>
    ELSE LET m == CHOOSE i \in 1..Len(list) :
                    /\ \A j \in 1..Len(list) : ~(list[j].CreationTime < list[i].CreationTime)
                    /\ \A j \in 1..(i - 1) : list[j].CreationTime # list[i].CreationTime
         IN <<list[m]>> \o StableSorted(SubSeq(list, 1, m - 1) \o SubSeq(list, m + 1, Len(list)), f)

LastNames(list, k) == {list[i].Name : i \in (Len(list) - k + 1)..Len(list)}

\* the case of C6: count-based eviction alone, K > 0, sentinel present,
\* more than K files, no deletion failing
CountEvictionCase ==
    /\ PurgeDone
    /\ err = "none"
    /\ args.maxFilesInDirectory > 0
    /\ args.autoExpireTime = 0
    /\ SentinelPresent
    /\ Cardinality(ExistingNames(before)) > args.maxFilesInDirectory
    /\ NoDeletionFailed

\* C6 as stated (for a directory with one sentinel entry): at most K files
\* remain, and they are the K most recently created (ties in enumeration
\* order), the sentinel being kept.
C6_Original ==
    (CountEvictionCase /\ SentinelEntries(before, checkFileName) = {checkFileName})
    => /\ Cardinality(ExistingNames(fs)) <= args.maxFilesInDirectory
       /\ ExistingNames(fs) =
            LastNames(StableSorted(GetTemporaryFileInfos(before), before), args.maxFilesInDirectory)
            \cup SentinelEntries(before, checkFileName)

\* C6 as amended: the files that remain are the sentinel entries together
\* with the last K entries of some ordering of the original files by
\* ascending creation time (entries of equal creation time in any order);
\* so no deleted file is newer than a retained file other than the sentinel,
\* at most K files other than the sentinel remain, and the directory is
\* left with at most K files plus the sentinel entries.
C6_CountEviction ==
    CountEvictionCase
    => LET K == args.maxFilesInDirectory
           sentinels == SentinelEntries(before, checkFileName)
       IN /\ \E order \in SortsOf({[Name |-> n, CreationTime |-> before[n].CreationTime] :
                                     n \in ExistingNames(before)}) :
                ExistingNames(fs) = LastNames(order, K) \cup sentinels
          /\ \A d \in Deleted, r \in ExistingNames(fs) \ sentinels :
                before[d].CreationTime <= before[r].CreationTime
          /\ Cardinality(ExistingNames(fs) \ sentinels) <= K
          /\ Cardinality(ExistingNames(fs)) <= K + Cardinality(sentinels)
          /\ \A n \in ExistingNames(fs) : fs[n] = before[n]

C6_Witness ==
    /\ CountEvictionCase
    /\ args.maxFilesInDirectory = 1
    /\ ExistingNames(before) = {".temporary", "a", "b"}
    /\ before[".temporary"].CreationTime = 0
    /\ before["a"].CreationTime = 1 /\ before["b"].CreationTime = 1
    /\ ExistingNames(fs) = {".temporary", "a"}

\* C7: with the sentinel present and a non-zero autoExpireTime, after a
\* call in which no deletion failed every entry created strictly before
\* now - autoExpireTime is gone, except the entries named like the sentinel,
\* which stay whatever their age.
C7_AgeEviction ==
    (/\ PurgeDone
     /\ err = "none"
     /\ SentinelPresent
     /\ args.autoExpireTime # 0
     /\ NoDeletionFailed)
    => /\ \A n \in ExpiredBefore \ SentinelEntries(before, checkFileName) : ~fs[n].exists
       /\ \A n \in SentinelEntries(before, checkFileName) : fs[n] = before[n]

C7_Witness ==
    /\ PurgeDone
    /\ SentinelPresent
    /\ args.autoExpireTime = 1
    /\ args.maxFilesInDirectory = -1
    /\ before[".temporary"].CreationTime = 0
    /\ before["a"].exists /\ before["a"].CreationTime = 1
    /\ before["b"].exists /\ before["b"].CreationTime = 2
    /\ ExistingNames(fs) = {".temporary", "b"}

\* C8: with maxFilesInDirectory = 0 and the sentinel check passing, a call
\* in which no deletion failed leaves exactly the sentinel entries, for
\* every autoExpireTime, and makes only the count pass's scan.
C8_ZeroCapDeletesAll ==
    (/\ PurgeDone
     /\ err = "none"
     /\ args.maxFilesInDirectory = 0
     /\ (args.checkFileName = "" \/ SentinelPresent)
     /\ NoDeletionFailed)
    => /\ fs = [n \in Names |->
                  IF n \in SentinelEntries(before, checkFileName) THEN before[n] ELSE NoFile]
       /\ scans = 1

C8_Witness ==
    /\ PurgeDone
    /\ args.maxFilesInDirectory = 0
    /\ args.autoExpireTime = 1
    /\ SentinelPresent
    /\ before["a"].exists /\ before["a"].CreationTime = 2
    /\ before["b"].exists /\ before["b"].CreationTime = 0
    /\ ExistingNames(fs) = {".temporary"}

\* C9: with a negative maxFilesInDirectory the count pass does not run:
\* only entries created strictly before now - autoExpireTime are handed to
\* DeleteFile or removed, and none at all when autoExpireTime is zero.
C9_NegativeCapNoCountPass ==
    (args.op = "PurgeDirectory" /\ args.maxFilesInDirectory < 0)
    => /\ pc \notin {"count_scan", "count_loop"}
       /\ attempted \subseteq ExpiredBefore
       /\ Deleted \subseteq ExpiredBefore
       /\ \A n \in Names \ ExpiredBefore : fs[n] = before[n]
       /\ (args.autoExpireTime = 0 => (attempted = {} /\ fs = before /\ scans = 0))

C9_Witness ==
    /\ PurgeDone
    /\ args.maxFilesInDirectory = -1
    /\ args.autoExpireTime = 2
    /\ args.checkFileName = ""
    /\ before["a"].exists /\ before["a"].CreationTime = 0
    /\ before["b"].exists /\ before["b"].CreationTime = 1
    /\ before[".temporary"].exists /\ before[".TEMPORARY"].exists
    /\ Cardinality(ExistingNames(fs)) = 3
    /\ ~fs["a"].exists

\* the sentinel check of lines 62-68 let the call through
SentinelCheckPassed == args.checkFileName = "" \/ SentinelPresent

\* the entries the age pass hands to DeleteFile
AgeCandidates ==
    IF AgePass(args) THEN ExpiredBefore \ SentinelEntries(before, checkFileName) ELSE {}

\* the entries left once the age pass is over
AfterAge == ExistingNames(before) \ {n \in AgeCandidates : ~before[n].locked}

\* C15: the only exception that leaves PurgeDirectory is the one of an
\* enumeration of a directory that is not there. A deletion that fails (a
\* file held open) stops neither pass: every candidate of the age pass and
\* of the count pass is handed to DeleteFile, the candidates that can be
\* deleted are deleted, and the others stay as they were.
C15_FailureIsolation ==
    PurgeDone
    => /\ (err # "none") => ~dirExists
       /\ (err = "none" /\ SentinelCheckPassed)
          => LET K == args.maxFilesInDirectory
                 sentinels == SentinelEntries(before, checkFileName)
                 infos == {[Name |-> n, CreationTime |-> before[n].CreationTime] : n \in AfterAge}
             IN /\ \A n \in Names : (before[n].exists /\ before[n].locked) => fs[n] = before[n]
                /\ \A n \in AgeCandidates : ~before[n].locked => ~fs[n].exists
                /\ IF CountPass(args) /\ Cardinality(AfterAge) > K
                   THEN \E order \in SortsOf(infos) :
                          LET candidates == {order[i].Name : i \in 1..(Len(order) - K)} \ sentinels
                          IN /\ attempted = AgeCandidates \cup candidates
                             /\ ExistingNames(fs) = AfterAge \ {n \in candidates : ~before[n].locked}
                   ELSE /\ attempted = AgeCandidates
                        /\ ExistingNames(fs) = AfterAge

C15_Witness ==
    /\ PurgeDone
    /\ err = "none"
    /\ SentinelPresent
    /\ args.autoExpireTime = 1 /\ args.maxFilesInDirectory = 2
    /\ before["a"].exists /\ before["a"].locked /\ before["a"].CreationTime = 0
    /\ before["b"].exists /\ ~before["b"].locked /\ before["b"].CreationTime = 1
    /\ before[".temporary"].CreationTime = 2
    /\ before[".TEMPORARY"].exists /\ before[".TEMPORARY"].CreationTime = 2
    /\ attempted = {"a", "b"}
    /\ ExistingNames(fs) = {".TEMPORARY", ".temporary", "a"}

\* the count pass has made its enumeration
CountScanned ==
    /\ args.op = "PurgeDirectory"
    /\ \/ pc = "count_loop"
       \/ pc = "done" /\ err = "none" /\ CountPass(args) /\ SentinelCheckPassed /\ dirExists

NamesOf(list) == {list[i].Name : i \in 1..Len(list)}

Ascending(list) ==
    \A i, j \in 1..Len(list) : i < j => list[i].CreationTime <= list[j].CreationTime

\* the entries among which the count pass deletes
Oldest(list, K) == {list[i].Name : i \in 1..(Len(list) - K)}

\* C22: with both policies active the count pass works on an enumeration
\* made after the age pass: it holds exactly the entries the age pass left;
\* when they are at most K nothing more is handed to DeleteFile, and
\* otherwise only entries among the (survivors - K) first of them in
\* ascending order of creation time are.
C22_FreshEnumeration ==
    (CountScanned /\ AgePass(args) /\ args.maxFilesInDirectory > 0)
    => LET K == args.maxFilesInDirectory IN
       /\ scans = 2
       /\ NamesOf(files) = AfterAge
       /\ Len(files) = Cardinality(AfterAge)
       /\ IF Len(files) <= K
          THEN /\ pc = "done"
               /\ attempted = AgeCandidates
               /\ ExistingNames(fs) = AfterAge
          ELSE /\ Ascending(files)
               /\ attempted \subseteq AgeCandidates \cup Oldest(files, K)
               /\ AfterAge \ Oldest(files, K) \subseteq ExistingNames(fs)

C22_Witness ==
    /\ PurgeDone
    /\ SentinelPresent
    /\ args.autoExpireTime = 1 /\ args.maxFilesInDirectory = 1
    /\ ExistingNames(before) = {".temporary", "a", "b"}
    /\ before[".temporary"].CreationTime = 2
    /\ before["a"].CreationTime = 0 /\ ~before["a"].locked
    /\ before["b"].CreationTime = 2 /\ ~before["b"].locked
    /\ scans = 2
    /\ Len(files) = 2
    /\ attempted = {"a", "b"}
    /\ ExistingNames(fs) = {".temporary"}

\* C23 as stated: the array the count pass works on is the enumeration in
\* ascending creation time with entries of equal creation time in their
\* enumeration order.
C23_Original ==
    (pc = "count_loop" /\ idx = 1 /\ args.maxFilesInDirectory > 0)
    => files = StableSorted(GetTemporaryFileInfos(fs), fs)

\* C23 as amended: the array the count pass works on holds the entries of
\* the enumeration in ascending creation time; entries of equal creation
\* time come in any relative order, and the array is the stable one, so
\* that the entries selected are determined by the enumeration, when the
\* creation times are pairwise distinct.
C23_AscendingSort ==
    (pc = "count_loop" /\ idx = 1 /\ args.maxFilesInDirectory > 0)
    => LET list == GetTemporaryFileInfos(fs) IN
       /\ Ascending(files)
       /\ Len(files) = Len(list)
       /\ NamesOf(files) = NamesOf(list)
       /\ \A i \in 1..Len(files) : files[i].CreationTime = fs[files[i].Name].CreationTime
       /\ (\A i, j \in 1..Len(list) : i # j => list[i].CreationTime # list[j].CreationTime)
          => files = StableSorted(list, fs)

C23_Witness ==
    /\ pc = "count_loop" /\ idx = 1
    /\ args.maxFilesInDirectory = 1
    /\ Len(files) = 3
    /\ files[1].Name = "b" /\ files[1].CreationTime = 1
    /\ files[2].Name = "a" /\ files[2].CreationTime = 1
    /\ files[3].Name = ".temporary" /\ files[3].CreationTime = 2

\* C25 as stated: a checkFileName that is not empty as passed and whose
\* normalized form is empty disables the sentinel check, and the purge goes
\* on to the passes its policy asks for.
C25_Original ==
    (/\ PurgeDone
     /\ args.checkFileName # ""
     /\ NormalizeCheckFileName(args.checkFileName) = ""
     /\ dirExists
     /\ (AgePass(args) \/ CountPass(args)))
    => scans >= 1

\* C25 as amended: the sentinel check is skipped only for a checkFileName
\* that is empty as passed. One that is not empty is normalized and then
\* looked up; when its normalized form is empty it names no file, the
\* check fails and PurgeDirectory returns with nothing scanned, deleted or
\* raised.
C25_NormalizedEmptyAborts ==
    (/\ PurgeDone
     /\ args.checkFileName # ""
     /\ NormalizeCheckFileName(args.checkFileName) = "")
    => (checkFileName = "" /\ fs = before /\ attempted = {} /\ scans = 0 /\ err = "none")

C25_Witness ==
    /\ PurgeDone
    /\ args.checkFileName = "tmp/"
    /\ args.maxFilesInDirectory = 0 /\ args.autoExpireTime = 1
    /\ dirExists
    /\ before["a"].exists /\ ~before["a"].locked /\ before["a"].CreationTime = 0
    /\ before[".temporary"].exists
    /\ scans = 0
    /\ fs = before

\* the K entries of the array created last
MostRecent(list, K) ==
    {list[i].Name : i \in {i \in 1..Len(list) :
        Cardinality({j \in 1..Len(list) : list[j].CreationTime > list[i].CreationTime}) < K}}

\* C27: for K > 0 and a scan of n entries of pairwise distinct creation
\* times, the count pass visits at most max(0, n - K) entries and none of
\* the K created last; so with autoExpireTime = 0 the K entries created
\* last, hence at least min(n, K) files, remain whatever deletion fails.
C27_NeverOverDeletes ==
    (/\ CountScanned
     /\ args.maxFilesInDirectory > 0
     /\ \A i, j \in 1..Len(files) : i # j => files[i].CreationTime # files[j].CreationTime)
    => LET K == args.maxFilesInDirectory
           n == Len(files)
           visited == {files[i].Name : i \in 1..(idx - 1)}
       IN /\ idx - 1 <= (IF n > K THEN n - K ELSE 0)
          /\ visited \cap MostRecent(files, K) = {}
          /\ args.autoExpireTime = 0
             => /\ attempted \subseteq visited
                /\ NamesOf(files) = ExistingNames(before)
                /\ MostRecent(files, K) \subseteq ExistingNames(fs)
                /\ Cardinality(ExistingNames(fs)) >= (IF n > K THEN K ELSE n)

C27_Witness ==
    /\ PurgeDone
    /\ args.maxFilesInDirectory = 1 /\ args.autoExpireTime = 0
    /\ args.checkFileName = ""
    /\ ExistingNames(before) = {".temporary", "a", "b"}
    /\ before[".temporary"].CreationTime = 1
    /\ before["a"].CreationTime = 2
    /\ before["b"].CreationTime = 0 /\ before["b"].locked
    /\ attempted = {".temporary", "b"}
    /\ ExistingNames(fs) = {"a", "b"}

----------------------------------------------------------------------------
(* Properties of the mark-and-sweep protocol *)

SweepDone == pc = "done" /\ args.op = "TryDeleteMarkedFiles"

\* the marker's text is no number, or not the file's last write time
Stale(f, marker) ==
    \/ ~TryParse(f[marker].text).ok
    \/ TryParse(f[marker].text).value # f[ActualFile(marker)].LastWriteTime

\* the markers of the directory at the start of the sweep whose protected
\* file is there and whose token is stale
StaleMarkers ==
    {m \in MarkerNames : /\ before[m].exists
                         /\ ActualFile(m) \in PlainNames
                         /\ before[ActualFile(m)].exists
                         /\ Stale(before, m)}

\* C3 (SpecSweep): a sweep never deletes or changes a protected file whose
\* marker is stale (text that is no integer, or a token other than the
\* file's last write time); it removes the marker, when the marker can be
\* deleted.
C3_StaleMarkerKeepsFile ==
    (args.op = "TryDeleteMarkedFiles")
    => \A m \in StaleMarkers :
          /\ fs[ActualFile(m)] = before[ActualFile(m)]
          /\ (pc = "done" /\ ~before[m].locked => ~fs[m].exists)

C3_Witness ==
    /\ SweepDone
    /\ StaleMarkers = {"a.delete", "b.delete"}
    /\ before["a.delete"].text = "x"
    /\ before["b.delete"].text = "1" /\ before["b"].LastWriteTime = 2
    /\ ~before["a"].locked /\ ~before["b"].locked
    /\ ExistingNames(fs) = {"a", "b"}

\* C4 (SpecRace): no step of a sweep removes a file that was rewritten
\* after its marker was written, whenever the rewrite happened.
C4_Original ==
    [][\A n \in PlainNames :
          (~Idle /\ hist[n].marked /\ hist[n].rewritten /\ fs[n].exists)
          => fs'[n].exists]_vars

C10_Original ==
    \A n \in PlainNames :
        (<>[](~fs[n].exists \/ ~fs[n].locked))
        => [](hist[n].marked => <>(~fs[n].exists \/ hist[n].rewritten))

----------------------------------------------------------------------------
(* Properties of a sweep under failures (checked under SpecFault, SpecSweep) *)

\* Lines 224-242 for one marker, as one function of the directory
ProcessMarker(f, d, name, fault) ==
    IF ~FileExists(f, d, name) \/ name \in fault.read THEN f
    ELSE LET text == f[name].text
             actualFile == ActualFile(name)
         IN IF ~FileExists(f, d, actualFile) THEN TryDelete(f, d, name)
            ELSE IF ~TryParse(text).ok THEN TryDelete(f, d, name)
            ELSE IF actualFile \in fault.time THEN f
            ELSE IF TokenMatches(f, text, actualFile)
            THEN TryDelete(TryDelete(f, d, actualFile), d, name)
            ELSE TryDelete(f, d, name)

\* the foreach of line 222 over the markers enumerated, from the i-th on
RECURSIVE SweepFrom(_, _, _, _, _)
SweepFrom(f, d, list, i, fault) ==
    IF i > Len(list) THEN f
    ELSE SweepFrom(ProcessMarker(f, d, list[i], fault), d, list, i + 1, fault)

\* the directory a whole sweep leaves
SweepOf(f, d, fault) == IF d THEN SweepFrom(f, d, GetFiles(f, ".delete"), 1, fault) ELSE f

\* the markers enumerated by the running sweep
Enumerated == {m \in MarkerNames : dirExists /\ before[m].exists}

\* the processing of the marker is cut short by an exception: the marker
\* cannot be read, or its token parses and the last-write-time query fails
CutShort(m) ==
    \/ m \in args.fault.read
    \/ /\ before[ActualFile(m)].exists
       /\ TryParse(before[m].text).ok
       /\ ActualFile(m) \in args.fault.time

\* something fails while the marker is processed
Failing(m) ==
    \/ CutShort(m)
    \/ before[m].locked
    \/ /\ before[ActualFile(m)].exists /\ before[ActualFile(m)].locked
       /\ TokenMatches(before, before[m].text, ActualFile(m))

\* C16: a sweep raises nothing whatever fails, and a failure on one marker
\* changes nothing for the others: every other marker, and the file it
\* protects, end as in the sweep of the same directory without the failing
\* marker.
C16_SweepFailureIsolation ==
    SweepDone
    => /\ err = "none"
       /\ fs = SweepOf(before, dirExists, args.fault)
       /\ \A bad \in {m \in Enumerated : Failing(m)} :
             LET without == SweepOf([before EXCEPT ![bad] = NoFile], dirExists, args.fault)
             IN \A m \in Enumerated \ {bad} :
                   /\ fs[m] = without[m]
                   /\ fs[ActualFile(m)] = without[ActualFile(m)]

C16_Witness ==
    /\ SweepDone
    /\ err = "none"
    /\ args.fault.read = {"a.delete"} /\ args.fault.time = {}
    /\ before["a"].exists /\ before["a.delete"].exists
    /\ ~before["a"].locked /\ ~before["a.delete"].locked
    /\ before["b"].exists /\ ~before["b"].locked
    /\ before["b.delete"].exists /\ ~before["b.delete"].locked
    /\ TokenMatches(before, before["a.delete"].text, "a")
    /\ TokenMatches(before, before["b.delete"].text, "b")
    /\ ExistingNames(fs) = {"a", "a.delete"}

\* C17 as stated: after a sweep of an existing directory no marker that
\* was enumerated and can be deleted remains.
C17_Original ==
    SweepDone
    => \A m \in Enumerated : ~before[m].locked => ~fs[m].exists

\* C17 as amended: after a sweep of an existing directory no marker remains
\* that was enumerated, can be deleted, and whose processing reached its
\* removal, that is, was not cut short by a failing read of the marker or a
\* failing last-write-time query; a marker whose processing was cut short
\* stays as it was.
C17_MarkersConsumed ==
    SweepDone
    => \A m \in Enumerated :
          /\ (~before[m].locked /\ ~CutShort(m)) => ~fs[m].exists
          /\ CutShort(m) => (fs[m] = before[m] /\ fs[ActualFile(m)] = before[ActualFile(m)])

C17_Witness ==
    /\ SweepDone
    /\ args.fault = NoSweepFault
    /\ Enumerated = {"a.delete", "b.delete"}
    /\ ~before["a.delete"].locked /\ ~before["b.delete"].locked
    /\ before["a"].exists /\ before["a"].locked
    /\ TokenMatches(before, before["a.delete"].text, "a")
    /\ ~before["b"].exists
    /\ ExistingNames(fs) = {"a"}

\* C18 (SpecSweep): a sweep that follows a finished sweep directly, nothing
\* having been written, locked or unlocked in between, leaves the directory
\* exactly as the first sweep left it.
C18_SweepIdempotent ==
    (SweepDone /\ args.again) => fs = before

C18_Witness ==
    /\ SweepDone /\ args.again
    /\ hist["b"].marked /\ hist["b"].sweeps = 2
    /\ fs["b"].exists /\ ~fs["b.delete"].exists
    /\ fs["a.delete"].exists /\ fs["a.delete"].locked
    /\ ~fs["a"].exists
    /\ fs = before

----------------------------------------------------------------------------
(* Properties of the deletion operations (checked under SpecDelete) *)

MarkerOf(path) == path \o ".delete"

\* the path named no file when the call was made
Nonexistent == ~FileExists(before, dirExists, args.filePath)

\* the companion marker was there when the call was made
MarkerBefore == FileExists(before, dirExists, MarkerOf(args.filePath))

\* C11 as stated: TryDelete(path) and Delete(path) on a path that does not
\* exist raise nothing and leave every file as it was, the file
\* path.delete included.
C11_Original ==
    (args.op \in {"Delete", "TryDelete"} /\ Nonexistent)
    => (err = "none" /\ fs = before)

\* C11 as amended: on a path that does not exist TryDelete(path) raises
\* nothing and changes nothing; Delete(path) raises nothing and changes
\* nothing but the file path.delete, which it removes when it is there and
\* can be deleted.
C11_NonexistentPath ==
    /\ (args.op = "TryDelete" /\ Nonexistent) => (err = "none" /\ fs = before)
    /\ (args.op = "Delete" /\ Nonexistent)
       => /\ err = "none"
          /\ fs = IF MarkerBefore /\ ~before[MarkerOf(args.filePath)].locked
                  THEN [before EXCEPT ![MarkerOf(args.filePath)] = NoFile]
                  ELSE before

C11_Witness ==
    /\ args.op = "Delete" /\ args.filePath = "a"
    /\ ~before["a"].exists
    /\ before["a.delete"].exists /\ before["b"].exists /\ before["b.delete"].exists
    /\ err = "none"
    /\ ~fs["a.delete"].exists
    /\ fs["b"] = before["b"] /\ fs["b.delete"] = before["b.delete"]

\* C12 as stated: Delete(path) removes path.delete whenever that marker is
\* there and can be deleted, whether the deletion of path succeeded or
\* failed.
C12_Original ==
    (args.op = "Delete" /\ MarkerBefore /\ ~before[MarkerOf(args.filePath)].locked)
    => ~fs[MarkerOf(args.filePath)].exists

\* C13: Delete(path) raises exactly when path exists and cannot be deleted,
\* and then the file (and everything else) is as before; when the removal
\* of path.delete fails nothing is raised, and the marker stays.
C13_LoudOnPrimaryOnly ==
    (args.op = "Delete")
    => LET path == args.filePath
           primaryFails == FileExists(before, dirExists, path) /\ before[path].locked
       IN /\ (err # "none") <=> primaryFails
          /\ primaryFails => (fs[path].exists /\ fs = before)
          /\ (~primaryFails /\ MarkerBefore /\ before[MarkerOf(path)].locked)
             => (err = "none" /\ fs[MarkerOf(path)] = before[MarkerOf(path)])

C13_Witness ==
    /\ args.op = "Delete" /\ args.filePath = "a"
    /\ before["a"].exists /\ ~before["a"].locked
    /\ before["a.delete"].exists /\ before["a.delete"].locked
    /\ err = "none"
    /\ ~fs["a"].exists /\ fs["a.delete"].exists

\* C14: TryDelete(path) and TryDeleteOrMark(path) raise nothing, whatever
\* fails (the deletion, the last-write-time query, the write of the
\* marker); a file whose deletion failed is left as it was.
C14_SilentOperations ==
    (args.op \in {"TryDelete", "TryDeleteOrMark"})
    => /\ err = "none"
       /\ (FileExists(before, dirExists, args.filePath) /\ before[args.filePath].locked)
          => fs[args.filePath] = before[args.filePath]

C14_Witness ==
    /\ args.op = "TryDeleteOrMark" /\ args.filePath = "b"
    /\ args.fault.time /\ ~args.fault.write
    /\ before["b"].exists /\ before["b"].locked
    /\ ~before["b.delete"].exists
    /\ err = "none"
    /\ fs = before

\* C20: Delete(path, type) leaves the file system and the error that the
\* strategy named by type leaves on the same directory under the same
\* failures: Delete(path), TryDelete(path) or TryDeleteOrMark(path).
C20_PureSelector ==
    (args.op = "DeleteWithType")
    => LET path == args.filePath
           strategy ==
             CASE args.type = "Delete" -> Delete(before, dirExists, path)
               [] args.type = "TryDelete" -> TryDeleteOutcome(before, dirExists, path)
               [] args.type = "TryDeleteOrMark" ->
                     TryDeleteOrMarkOutcome(before, dirExists, path, args.fault)
       IN /\ fs = strategy.fs
          /\ (err # "none") = strategy.thrown

C20_Witness ==
    /\ args.op = "DeleteWithType" /\ args.type = "TryDelete" /\ args.filePath = "a"
    /\ before["a"].exists /\ before["a"].locked
    /\ ~before["a.delete"].exists
    /\ err = "none"
    /\ fs = before

----------------------------------------------------------------------------
(* Properties of a purge and a sweep running together (FairInterleave) *)

BothDone ==
    /\ pc = "done" /\ parked.pc = "done"
    /\ {args.op, parked.args.op} = {"PurgeDirectory", "TryDeleteMarkedFiles"}

\* C19: a PurgeDirectory call and a TryDeleteMarkedFiles call on the same
\* directory, their file system steps interleaved in any way, both return,
\* and no exception ever leaves either of them, the other call having
\* deleted a file between its enumeration and its step on the file or not.
C19_InterleavingSafe ==
    /\ [](err = "none" /\ parked.err = "none")
    /\ <>[]BothDone

\* the purge is about to delete a file it enumerated and the sweep has
\* deleted since
C19_Witness ==
    /\ pc = "count_loop"
    /\ idx <= CountLoopEnd(files, args)
    /\ files[idx].Name = "a"
    /\ ~fs["a"].exists
    /\ "a" \notin attempted
    /\ parked.args.op = "TryDeleteMarkedFiles"
    /\ parked.pc = "sweep_read"
    /\ parked.idx = 2

----------------------------------------------------------------------------
(* Properties of marking *)

\* a TryDeleteOrMark(path) call on a plain file has returned
Marked(path) == args.op = "TryDeleteOrMark" /\ args.filePath = path

\* the marker of path was there, held open, when the call was made
MarkerHeld(path) == before[MarkerOf(path)].exists /\ before[MarkerOf(path)].locked

\* C24 as stated: when TryDeleteOrMark(path) deletes the file, neither path
\* nor path.delete exists after the call.
C24_Original ==
    \A n \in PlainNames :
        (Marked(n) /\ before[n].exists /\ ~before[n].locked)
        => (~fs[n].exists /\ ~fs[MarkerOf(n)].exists)

\* C24 as amended: TryDeleteOrMark(path) writes the marker only when the
\* file is still there after the delete attempt. When the deletion succeeds
\* path is gone and so is path.delete, unless a marker that was there is
\* held open, which stays as it was; when the deletion fails and the marker
\* write succeeds, path is as it was and path.delete holds its current
\* last-write-time token whatever it held before; when the write fails or
\* path was not there, nothing changes but what Delete removes.
C24_MarkOnlyWhenFileRemains ==
    \A n \in PlainNames :
        Marked(n) =>
        LET mk == MarkerOf(n) IN
        /\ err = "none"
        /\ \A o \in Names \ {n, mk} : fs[o] = before[o]
        /\ (fs[mk].exists /\ fs[mk] # before[mk]) => fs[n].exists
        /\ (before[n].exists /\ ~before[n].locked)
           => /\ ~fs[n].exists
              /\ IF MarkerHeld(n) THEN fs[mk] = before[mk] ELSE ~fs[mk].exists
        /\ (before[n].exists /\ before[n].locked)
           => /\ fs[n] = before[n]
              /\ IF args.fault.time \/ args.fault.write \/ MarkerHeld(n)
                 THEN fs[mk] = before[mk]
                 ELSE /\ fs[mk].exists
                      /\ fs[mk].text = ToInvariant(fs[n].LastWriteTime)
        /\ ~before[n].exists => fs = before

C24_Witness ==
    /\ Marked("a")
    /\ args.fault = NoFault
    /\ before["a"].exists /\ before["a"].locked /\ before["a"].LastWriteTime = 2
    /\ before["a.delete"].exists /\ ~before["a.delete"].locked
    /\ before["a.delete"].text = "1"
    /\ fs["a"] = before["a"]
    /\ fs["a.delete"].exists /\ fs["a.delete"].text = "2"

\* C26: a sweep creates no file and changes no content; a file that is not
\* as it was at the start of the call is gone, and is a marker or a file
\* whose marker was in the directory at the start of the call. On a
\* directory that does not exist nothing changes and nothing is raised.
C26_SweepFrame ==
    (args.op = "TryDeleteMarkedFiles")
    => /\ \A n \in Names :
             \/ fs[n] = before[n]
             \/ /\ before[n].exists /\ ~fs[n].exists
                /\ \/ EndsWith(n, ".delete")
                   \/ before[MarkerOf(n)].exists
       /\ ~dirExists => (fs = before /\ err = "none" /\ pc = "done")

C26_Witness ==
    /\ SweepDone
    /\ dirExists
    /\ before["a"].exists /\ before["a"].LastWriteTime = 1
    /\ before["a.delete"].exists /\ before["a.delete"].text = "1"
    /\ before["b"].exists /\ ~before["b"].locked /\ ~before["b.delete"].exists
    /\ ~fs["a"].exists /\ ~fs["a.delete"].exists
    /\ fs["b"] = before["b"]

----------------------------------------------------------------------------
(* RandomFileCode *)

\* no file system call is running and the directory is empty
NoDirectory ==
    /\ dirExists = FALSE
    /\ fs = [n \in Names |-> NoFile]
    /\ pc = "idle"
    /\ args = NoArgs
    /\ checkFileName = ""
    /\ files = <<>>
    /\ idx = 1
    /\ readLine = ""
    /\ before = fs
    /\ attempted = {}
    /\ scans = 0
    /\ err = "none"
    /\ hist = NoHist
    /\ parked = NoCall

\* guidBytes[i] ^ guidBytes[i + 8] on bytes
RECURSIVE Xor(_, _)
Xor(a, b) ==
    IF a = 0 /\ b = 0 THEN 0
    ELSE (((a % 2) + (b % 2)) % 2) + 2 * Xor(a \div 2, b \div 2)

\* the byte values the identifiers are built from
ByteSamples == {0, 1, 31, 128, 255}

\* a version 4 identifier: the high nibble of byte 7 is 4, the two high
\* bits of byte 8 are 10
Version4(g) == [g EXCEPT ![7] = 64 + (@ % 16), ![8] = 128 + (@ % 64)]

\* Guid.NewGuid().ToByteArray(): two bytes, one in each half, over a
\* background byte
NewGuid ==
    { Version4([i \in 0..15 |-> IF i = p THEN a ELSE IF i = q THEN b ELSE c]) :
        p \in 0..7, q \in 8..15, a \in ByteSamples, b \in ByteSamples, c \in ByteSamples }

\* lines 254-256: the fold of the 16 bytes into 8
EightBytesMutant(g) == [i \in 0..7 |-> g[i]]
EightBytes(g) == [i \in 0..7 |-> Xor(g[i], g[i + 8]) % 256]

\* Base32.Encode: the bytes read as one string of bits, most significant
\* first, cut into groups of 5 bits (the last one filled with zeros), each
\* group written as one character of a 32 character alphabet; no padding
Base32Chars == "abcdefghijklmnopqrstuvwxyz234567"

Pow2(n) == IF n = 0 THEN 1 ELSE IF n = 1 THEN 2 ELSE IF n = 2 THEN 4 ELSE IF n = 3 THEN 8
           ELSE IF n = 4 THEN 16 ELSE IF n = 5 THEN 32 ELSE IF n = 6 THEN 64 ELSE 128

BitOf(bytes, count, k) ==
    IF k >= 8 * count THEN 0 ELSE (bytes[k \div 8] \div Pow2(7 - (k % 8))) % 2

Group(bytes, count, j) ==
    16 * BitOf(bytes, count, 5 * j) + 8 * BitOf(bytes, count, 5 * j + 1)
    + 4 * BitOf(bytes, count, 5 * j + 2) + 2 * BitOf(bytes, count, 5 * j + 3)
    + BitOf(bytes, count, 5 * j + 4)

RECURSIVE EncodeFrom(_, _, _)
EncodeFrom(bytes, count, j) ==
    IF 5 * j >= 8 * count THEN ""
    ELSE Char(Base32Chars, Group(bytes, count, j) + 1) \o EncodeFrom(bytes, count, j + 1)

Base32Encode(bytes, count) == EncodeFrom(bytes, count, 0)

\* lines 250-258, on the identifier Guid.NewGuid() hands to the call
RandomFileCode ==
    /\ code' = Base32Encode(EightBytes(guidBytes), 8)
    /\ UNCHANGED <<fileVars, widgetVars, guidBytes>>

\* the identifier the call will get is drawn when the behaviour starts
InitCode ==
    /\ NoDirectory
    /\ NoWidget
    /\ guidBytes \in NewGuid
    /\ code = ""

NextCode == RandomFileCode

SpecCode == InitCode /\ [][NextCode]_vars

----------------------------------------------------------------------------
(* Properties of RandomFileCode *)

\* the value of a character of the alphabet
Base32Value(c) == (CHOOSE n \in 1..Len(Base32Chars) : Char(Base32Chars, n) = c) - 1

\* bit k of the bits a code stands for
CodeBit(text, k) == (Base32Value(Char(text, (k \div 5) + 1)) \div Pow2(4 - (k % 5))) % 2

\* byte i of the bits a code stands for
CodeByte(text, i) ==
    128 * CodeBit(text, 8 * i) + 64 * CodeBit(text, 8 * i + 1) + 32 * CodeBit(text, 8 * i + 2)
    + 16 * CodeBit(text, 8 * i + 3) + 8 * CodeBit(text, 8 * i + 4) + 4 * CodeBit(text, 8 * i + 5)
    + 2 * CodeBit(text, 8 * i + 6) + CodeBit(text, 8 * i + 7)

\* C21: every code RandomFileCode returns has 13 characters, all of the
\* alphabet and none a path separator, and stands for the 8 bytes whose
\* byte i is the exclusive-or of bytes i and i + 8 of the identifier.
C21_RandomFileCode ==
    (code # "")
    => /\ Len(code) = 13
       /\ \A k \in 1..Len(code) :
             /\ ~IsSeparator(Char(code, k))
             /\ \E n \in 1..Len(Base32Chars) : Char(Base32Chars, n) = Char(code, k)
       /\ \A i \in 0..7 :
             /\ CodeByte(code, i) = Xor(guidBytes[i], guidBytes[i + 8])
             /\ Xor(CodeByte(code, i), guidBytes[i]) = guidBytes[i + 8]
       /\ CodeBit(code, 64) = 0

C21_Witness ==
    /\ guidBytes = [i \in 0..15 |-> IF i = 7 THEN 64 ELSE IF i = 8 THEN 128 ELSE 0]
    /\ code = "qaaaaaaaaaaea"

----------------------------------------------------------------------------
(* QuickSearchInput *)

\* what the input element can hold
InputValues == {"", "a", " a", "b"}

\* options.fields, when given
Fields == <<"Name", "Code">>
FieldValues == {Fields[i] : i \in 1..Len(Fields)} \cup {Undefined}

\* get_value(): lines 111-113
get_value == Trim(element.val)

\* window.clearTimeout(this.timer), guarded by !!this.timer
ClearTimeoutMutant(id) == timeouts
ClearTimeout(id) == IF id # 0 THEN {t \in timeouts : t.id # id} ELSE timeouts

\* the record of an event
Event(name) == [NoEvent EXCEPT !.event = name, !.prev = trace.event]

\* line 92: nothing to search for
NothingChangedMutant(value, changed) == value = lastValue
NothingChanged(value, changed) == value = lastValue /\ (~changed \/ value = "")

\* checkIfValueChanged(): lines 86-109, called by the handler of the named
\* event with fieldChanged as the handler left it
checkIfValueChanged(name, changed) ==
    LET value == get_value
        log == [Event(name) EXCEPT !.checked = TRUE, !.ignored = element.ignoreChange,
                                   !.value = value, !.lastValue = lastValue,
                                   !.fieldChanged = changed]
    IN IF element.ignoreChange
       THEN /\ fieldChanged' = changed
            /\ trace' = log
            /\ UNCHANGED <<lastValue, timer, timeouts, lastTimer>>
       ELSE IF NothingChanged(value, changed)
       THEN /\ fieldChanged' = FALSE
            /\ trace' = log
            /\ UNCHANGED <<lastValue, timer, timeouts, lastTimer>>
       ELSE /\ lastTimer < MaxTimers
            /\ fieldChanged' = FALSE
            /\ timeouts' = ClearTimeout(timer) \cup {[id |-> lastTimer + 1, value |-> value]}
            /\ timer' = lastTimer + 1
            /\ lastTimer' = lastTimer + 1
            /\ lastValue' = value
            /\ trace' = [log EXCEPT !.scheduled = TRUE,
                                    !.cancelled = \E t \in timeouts : t.id = timer]

\* lines 35-37
KeyUp ==
    /\ checkIfValueChanged("keyup", fieldChanged)
    /\ UNCHANGED <<fileVars, codeVars, element, field, options>>

\* lines 39-41
Change ==
    /\ checkIfValueChanged("change", fieldChanged)
    /\ UNCHANGED <<fileVars, codeVars, element, field, options>>

\* lines 55-61: a click on the menu entry of a field
Click(item) ==
    /\ \E i \in 1..Len(options.fields) : options.fields[i] = item
    /\ field' = item
    /\ checkIfValueChanged("click", field # item)
    /\ UNCHANGED <<fileVars, codeVars, element, options>>

\* lines 119-126
set_field(value) ==
    /\ IF field # value
       THEN /\ field' = value
            /\ checkIfValueChanged("set_field", TRUE)
       ELSE /\ trace' = Event("set_field")
            /\ UNCHANGED <<field, fieldChanged, lastValue, timer, timeouts, lastTimer>>
    /\ UNCHANGED <<fileVars, codeVars, element, options>>

\* lines 138-149
restoreState(value, newField) ==
    /\ fieldChanged' = FALSE
    /\ field' = newField
    /\ element' = [element EXCEPT !.val = Trim(value)]
    /\ lastValue' = Trim(value)
    /\ timeouts' = ClearTimeout(timer)
    /\ timer' = 0
    /\ trace' = Event("restoreState")
    /\ UNCHANGED <<fileVars, codeVars, lastTimer, options>>

\* searchNow(value): lines 151-178, the call of options.onSearch
searchNow(name, value) ==
    trace' = [Event(name) EXCEPT !.searched = TRUE, !.search = value, !.searchField = field]

\* lines 78-83
ExecuteSearch ==
    /\ timeouts' = ClearTimeout(timer)
    /\ searchNow("execute-search", Trim(element.val))
    /\ UNCHANGED <<fileVars, codeVars, element, lastValue, field, fieldChanged, timer,
                   lastTimer, options>>

\* lines 104-106: a pending timeout fires
Timeout(t) ==
    /\ t \in timeouts
    /\ timeouts' = timeouts \ {t}
    /\ searchNow("timeout", t.value)
    /\ UNCHANGED <<fileVars, codeVars, element, lastValue, field, fieldChanged, timer,
                   lastTimer, options>>

\* the user, or a script, changes what the input holds; the events that
\* tell the widget come later
Input(value) ==
    /\ value # element.val
    /\ element' = [element EXCEPT !.val = value]
    /\ trace' = Event("input")
    /\ UNCHANGED <<fileVars, codeVars, lastValue, field, fieldChanged, timer, timeouts,
                   lastTimer, options>>

\* a script adds the ignore-change class to the input or removes it
ToggleIgnoreChange ==
    /\ element' = [element EXCEPT !.ignoreChange = ~@]
    /\ trace' = Event("class")
    /\ UNCHANGED <<fileVars, codeVars, lastValue, field, fieldChanged, timer, timeouts,
                   lastTimer, options>>

\* lines 26-84: the widget as its constructor leaves it
InitSearch ==
    /\ NoDirectory
    /\ NoCode
    /\ element \in [val : InputValues, ignoreChange : {FALSE}]
    /\ lastValue = Trim(element.val)
    /\ options \in {[fields |-> <<>>], [fields |-> Fields]}
    /\ field = IF Len(options.fields) > 0 THEN options.fields[1] ELSE Undefined
    /\ fieldChanged = FALSE
    /\ timer = 0
    /\ timeouts = {}
    /\ lastTimer = 0
    /\ trace = NoEvent

NextSearch ==
    \/ KeyUp
    \/ Change
    \/ \E item \in FieldValues : Click(item)
    \/ \E value \in FieldValues : set_field(value)
    \/ \E value \in InputValues, newField \in FieldValues : restoreState(value, newField)
    \/ ExecuteSearch
    \/ \E t \in timeouts : Timeout(t)
    \/ \E value \in InputValues : Input(value)
    \/ ToggleIgnoreChange

SpecSearch == InitSearch /\ [][NextSearch]_vars

----------------------------------------------------------------------------
(* Properties of QuickSearchInput *)

\* C28: at most one search timeout is pending, and it is the one the
\* timer field names, for the value last scheduled; a newly scheduled
\* search leaves only itself pending, so that a timeout that fires
\* searches the last value scheduled; after restoreState none is pending.
C28_Debounce ==
    /\ Cardinality(timeouts) <= 1
    /\ \A t \in timeouts : t.id = timer /\ t.value = lastValue
    /\ trace.scheduled => timeouts = {[id |-> timer, value |-> trace.value]}
    /\ trace.event = "timeout" => trace.search = lastValue
    /\ trace.event = "restoreState" => (timeouts = {} /\ timer = 0)

C28_Witness ==
    /\ trace.event = "keyup"
    /\ trace.scheduled /\ trace.cancelled
    /\ trace.lastValue = "a" /\ trace.value = "b"
    /\ timeouts = {[id |-> 2, value |-> "b"]}

\* C29: a call of checkIfValueChanged schedules a search exactly when the
\* element does not carry ignore-change and the trimmed value differs from
\* lastValue or the field was changed and the trimmed value is not empty;
\* a call that is not ignored leaves fieldChanged false, and a scheduled
\* search is for the value lastValue then holds.
C29_ScheduleCondition ==
    trace.checked
    => /\ trace.scheduled
          <=> (/\ ~trace.ignored
               /\ \/ trace.value # trace.lastValue
                  \/ trace.fieldChanged /\ trace.value # "")
       /\ ~trace.ignored => ~fieldChanged
       /\ trace.scheduled
          => (lastValue = trace.value /\ [id |-> timer, value |-> lastValue] \in timeouts)
       /\ ~trace.scheduled => lastValue = trace.lastValue

C29_Witness ==
    /\ trace.event = "set_field"
    /\ trace.checked /\ ~trace.ignored
    /\ trace.fieldChanged
    /\ trace.value = "a" /\ trace.lastValue = "a"
    /\ trace.scheduled

\* C30 as stated: a keyup or change event that comes right after an
\* execute-search event, the input and the field being as they were,
\* schedules no search.
C30_Original ==
    (trace.event \in {"keyup", "change"} /\ trace.prev = "execute-search")
    => ~trace.scheduled

====
